---- MODULE Spec2Model ----
\* Verification model of the HubSpot margin reports:
\*   src/FinancialYearMargin.py        (the period report, sheet "CurrentMargin")
\*   src/GithubVersionFutureMargin.py  (the all-time report, sheet "AllTime")
\*
\* Python floats are modelled as exact rationals <<n, d>> (d > 0, lowest terms);
\* rounding error of the binary representation is outside the model.
\* Python strings are sequences of one-character strings.
EXTENDS Integers, Sequences, FiniteSets, TLC

VARIABLES
    frame,      \* the activation of extract_data under study (SpecFold)
    period,     \* FinancialYearMargin.main and HubSpotAPI.alltime (SpecPeriod)
    crmlog,     \* per pass of alltime's inner loop: the pair searched, len(all_deals)
    current,    \* worksheet 'CurrentMargin': the update_acell calls, in order
    file,       \* content of rownumber.txt
    file0,      \* content of rownumber.txt before the first run
    sheet,      \* worksheet 'AllTime': row -> column -> who filled the cell
    run,        \* the runs of GithubVersionFutureMargin.main
    crm         \* the deals the CRM holds while the runs page through it (SpecPaging)

vars == <<frame, period, crmlog, current, file, file0, sheet, run, crm>>

foldVars == <<frame>>
periodVars == <<period, crmlog, current>>
allTimeVars == <<file, file0, sheet, run, crm>>

-----------------------------------------------------------------------------
\* Bounds of the model

MaxDeals == 2       \* longest deal list handed to extract_data in SpecFold

-----------------------------------------------------------------------------
\* Python values

NoneV == [t |-> "none"]
StrV(s) == [t |-> "str", s |-> s]
FloatV(q) == [t |-> "float", v |-> q]
IntV(n) == [t |-> "int", v |-> n]

Digits == {"0", "1", "2", "3", "4", "5", "6", "7", "8", "9"}

DigitVal(c) ==
    CASE c = "0" -> 0 [] c = "1" -> 1 [] c = "2" -> 2 [] c = "3" -> 3
      [] c = "4" -> 4 [] c = "5" -> 5 [] c = "6" -> 6 [] c = "7" -> 7
      [] c = "8" -> 8 [] c = "9" -> 9

DigitChar(n) ==
    CASE n = 0 -> "0" [] n = 1 -> "1" [] n = 2 -> "2" [] n = 3 -> "3"
      [] n = 4 -> "4" [] n = 5 -> "5" [] n = 6 -> "6" [] n = 7 -> "7"
      [] n = 8 -> "8" [] n = 9 -> "9"

\* value of a string of decimal digits
RECURSIVE DecimalValue(_)
DecimalValue(s) ==
    IF s = <<>> THEN 0
    ELSE 10 * DecimalValue(SubSeq(s, 1, Len(s) - 1)) + DigitVal(s[Len(s)])

IsDecimal(s) == s # <<>> /\ \A k \in 1..Len(s) : s[k] \in Digits

\* ---- rationals ----
Abs(n) == IF n < 0 THEN -n ELSE n

RECURSIVE GCD(_, _)
GCD(a, b) == IF b = 0 THEN a ELSE GCD(b, a % b)

Norm(n, d) ==
    LET s == IF d < 0 THEN -1 ELSE 1
        g == GCD(Abs(n), Abs(d))
    IN  <<(s * n) \div g, (s * d) \div g>>

Zero == <<0, 1>>
RAdd(p, q) == Norm(p[1] * q[2] + q[1] * p[2], p[2] * q[2])
RSub(p, q) == Norm(p[1] * q[2] - q[1] * p[2], p[2] * q[2])
RMul(p, q) == Norm(p[1] * q[1], p[2] * q[2])
RDiv(p, q) == Norm(p[1] * q[2], p[2] * q[1])     \* q # Zero
RInt(n) == <<n, 1>>

\* float(x): the number, or the exception float() raises
Float(x) ==
    CASE x.t = "float" -> [ok |-> TRUE, v |-> x.v]
      [] x.t = "none"  -> [ok |-> FALSE, exc |-> "TypeError"]
      [] x.t = "str"   -> IF IsDecimal(x.s)
                          THEN [ok |-> TRUE, v |-> RInt(DecimalValue(x.s))]
                          ELSE [ok |-> FALSE, exc |-> "ValueError"]

\* truth value of x in `if x:`
Truthy(x) ==
    CASE x.t = "none"  -> FALSE
      [] x.t = "str"   -> x.s # <<>>
      [] x.t = "float" -> x.v # Zero

-----------------------------------------------------------------------------
\* HubSpotAPI.extract_data (the same loop in both files; the all-time file reads
\* the amount from 'amount_in_home_currency' and also returns the totals and cost)

Unbound == [t |-> "unbound"]      \* a local that no statement has assigned yet

Variants == {"period", "alltime"}

\* the locals before the loop
NewLocals ==
    [idcal |-> <<>>, num_amounts |-> Zero, num_net_revenue |-> Zero,
     margin |-> Unbound, cost |-> Unbound]

Raise(loc, e) == [raised |-> TRUE, exc |-> e, loc |-> loc]
Fine(loc) == [raised |-> FALSE, exc |-> "", loc |-> loc]

\* the `if currency == "NZD": if rate is not None:` block: the value of
\* net_revenue after it, or the exception raised in it
ConvertNZD(deal, rate) ==
    IF deal.deal_currency_code = "NZD" /\ rate # NoneV
    THEN LET f == Float(deal.net_revenue)
         IN  IF ~f.ok THEN [ok |-> FALSE, exc |-> f.exc]
             ELSE [ok |-> TRUE, v |-> FloatV(RDiv(f.v, rate.v))]
    ELSE [ok |-> TRUE, v |-> deal.net_revenue]

\* what one deal adds to num_net_revenue, given net_revenue after conversion and
\* float(amount)
Effective(net_revenue, famount) ==
    IF Truthy(net_revenue)
    THEN Float(net_revenue)
    ELSE [ok |-> TRUE, v |-> famount]

\* margin = ((num_net_revenue / num_amounts) * 100)
Margin(num_net_revenue, num_amounts) ==
    IF num_amounts = Zero
    THEN [ok |-> FALSE, exc |-> "ZeroDivisionError"]
    ELSE [ok |-> TRUE, v |-> RMul(RDiv(num_net_revenue, num_amounts), RInt(100))]

\* one iteration of `for deal in deals:`
LoopBody(loc, deal, rate) ==
    LET loc1 == [loc EXCEPT !.idcal = Append(@, NoneV)]
        conv == ConvertNZD(deal, rate)
        fa   == Float(deal.amount)
    IN  IF ~conv.ok THEN Raise(loc1, conv.exc)
        ELSE IF ~fa.ok THEN Raise(loc1, fa.exc)
        ELSE LET amounts == RAdd(loc1.num_amounts, fa.v)
                 eff     == Effective(conv.v, fa.v)
             IN  IF ~eff.ok THEN Raise([loc1 EXCEPT !.num_amounts = amounts], eff.exc)
                 ELSE LET net == RAdd(loc1.num_net_revenue, eff.v)
                          m   == Margin(net, amounts)
                          loc2 == [loc1 EXCEPT !.num_amounts = amounts,
                                               !.num_net_revenue = net]
                      IN  IF ~m.ok THEN Raise(loc2, m.exc)
                          ELSE Fine([loc2 EXCEPT !.margin = FloatV(m.v),
                                                 !.cost = FloatV(RSub(amounts, net))])

\* the return statement after the loop
Return(variant, loc) ==
    IF loc.margin = Unbound
    THEN [raised |-> TRUE, exc |-> "UnboundLocalError", ret |-> <<>>]
    ELSE [raised |-> FALSE, exc |-> "",
          ret |-> IF variant = "period"
                  THEN <<loc.margin, IntV(Len(loc.idcal))>>
                  ELSE <<loc.margin, IntV(Len(loc.idcal)), FloatV(loc.num_amounts),
                         FloatV(loc.num_net_revenue), loc.cost>>]

\* the loop over deals[lo..hi], left to right, stopping at the first exception
\* (the range is halved to keep the evaluation shallow; the order is the list's)
RECURSIVE RunLoop(_, _, _, _, _)
RunLoop(loc, deals, lo, hi, rate) ==
    IF lo > hi THEN Fine(loc)
    ELSE IF lo = hi THEN LoopBody(loc, deals[lo], rate)
    ELSE LET mid == (lo + hi) \div 2
             left == RunLoop(loc, deals, lo, mid, rate)
         IN  IF left.raised THEN left
             ELSE RunLoop(left.loc, deals, mid + 1, hi, rate)

\* the whole call, as the callers see it
extract_data(variant, deals, rate) ==
    LET r == RunLoop(NewLocals, deals, 1, Len(deals), rate)
    IN  IF r.raised THEN [raised |-> TRUE, exc |-> r.exc, ret |-> <<>>]
        ELSE Return(variant, r.loc)

-----------------------------------------------------------------------------
\* Inputs of the fold

S0 == <<"0">>
S50 == <<"5", "0">>
S100 == <<"1", "0", "0">>
S200 == <<"2", "0", "0">>
Sabc == <<"a", "b", "c">>

AmountPool == {StrV(S0), StrV(S100), StrV(S200), StrV(Sabc)}
NetRevenuePool == {NoneV, StrV(<<>>), StrV(S0), StrV(S50)}
Currencies == {"AUD", "NZD"}

DealPool ==
    [amount : AmountPool, net_revenue : NetRevenuePool, deal_currency_code : Currencies]

\* get_nz_to_aud_rate: a positive float, or None when the lookup failed
Rates == {NoneV, FloatV(<<2, 1>>), FloatV(<<11, 10>>)}

DealSeqs == UNION {[1..n -> DealPool] : n \in 0..MaxDeals}

Off == [pc |-> "off"]

\* ---- SpecFold: one call of extract_data, an iteration at a time ----

FoldInit ==
    /\ frame \in {[pc |-> "loop", variant |-> v, deals |-> ds, rate |-> r, i |-> 0,
                   loc |-> NewLocals, exc |-> "", ret |-> <<>>] :
                      v \in Variants, ds \in DealSeqs, r \in Rates}
    /\ period = Off
    /\ crmlog = <<>>
    /\ current = <<>>
    /\ file = <<>>
    /\ file0 = <<>>
    /\ sheet = <<>>
    /\ run = <<>>
    /\ crm = <<>>

FoldIterate ==
    /\ frame.pc = "loop"
    /\ frame.i < Len(frame.deals)
    /\ LET r == LoopBody(frame.loc, frame.deals[frame.i + 1], frame.rate)
       IN  frame' = [frame EXCEPT !.i = @ + 1,
                                  !.loc = r.loc,
                                  !.pc = IF r.raised THEN "raised" ELSE "loop",
                                  !.exc = r.exc]
    /\ UNCHANGED <<periodVars, allTimeVars>>

FoldReturn ==
    /\ frame.pc = "loop"
    /\ frame.i = Len(frame.deals)
    /\ LET r == Return(frame.variant, frame.loc)
       IN  frame' = [frame EXCEPT !.pc = IF r.raised THEN "raised" ELSE "returned",
                                  !.exc = r.exc,
                                  !.ret = r.ret]
    /\ UNCHANGED <<periodVars, allTimeVars>>

FoldNext == FoldIterate \/ FoldReturn

SpecFold == FoldInit /\ [][FoldNext]_vars

-----------------------------------------------------------------------------
\* FinancialYearMargin.py: main and HubSpotAPI.alltime (SpecPeriod)

MaxPage == 1        \* most deals one search of the period report returns

NA == StrV(<<"N", "A">>)          \* the string "NA"

\* quarters, by label (alltime), and the stage categories main passes
quarters == <<"Q1", "Financial Year">>
deal_stage == <<"all", "sales", "renewels">>

\* deals the CRM answers the period report with
PeriodDeals ==
    { [amount |-> StrV(S100), net_revenue |-> StrV(S50), deal_currency_code |-> "AUD"],
      [amount |-> StrV(Sabc), net_revenue |-> NoneV, deal_currency_code |-> "AUD"],
      [amount |-> StrV(S100), net_revenue |-> StrV(Sabc), deal_currency_code |-> "AUD"] }

\* find_deals: the 'results' of one search ([] also when the request fails)
PeriodPages == UNION {[1..n -> PeriodDeals] : n \in 0..MaxPage}

\* round(x, 2): to the nearest hundredth, ties to even
Round2(q) ==
    LET n == q[1] * 100
        d == q[2]
        fl == IF n >= 0 THEN n \div d ELSE -((-n + d - 1) \div d)
        rem == n - fl * d
        h == IF 2 * rem < d THEN fl
             ELSE IF 2 * rem > d THEN fl + 1
             ELSE IF fl % 2 = 0 THEN fl ELSE fl + 1
    IN  Norm(h, 100)

\* chr(65 + col), for the single-letter columns
Letters == <<"A", "B", "C", "D", "E", "F", "G", "H", "I", "J", "K", "L", "M",
             "N", "O", "P", "Q", "R", "S", "T", "U", "V", "W", "X", "Y", "Z">>
Chr(n) == Letters[n - 64]

\* the text main writes for one result
Report(margin, total) ==
    IF margin # NA
    THEN [t |-> "report", margin |-> Round2(margin.v), total |-> total]
    ELSE NA

PeriodInit ==
    /\ period = [pc |-> "rate", rate |-> NoneV, qi |-> 1, si |-> 1, deals |-> <<>>,
                 all_deals |-> <<>>, margins |-> <<>>, totals |-> <<>>,
                 row |-> 0, col |-> 0, values_entered |-> 0, exc |-> ""]
    /\ crmlog = <<>>
    /\ current = <<>>
    /\ frame = Off
    /\ file = <<>>
    /\ file0 = <<>>
    /\ sheet = <<>>
    /\ run = <<>>
    /\ crm = <<>>

\* main: rate = hubspot_api.get_nz_to_aud_rate(), then the call of alltime
PeriodGetRate ==
    /\ period.pc = "rate"
    /\ \E r \in Rates : period' = [period EXCEPT !.rate = r, !.pc = "limit"]
    /\ UNCHANGED <<frame, crmlog, current, allTimeVars>>

\* alltime: deals = self.find_deals(start, end, stage_category, "limit")
PeriodFetchLimit ==
    /\ period.pc = "limit"
    /\ \E page \in PeriodPages :
          period' = [period EXCEPT !.deals = page, !.pc = "after"]
    /\ UNCHANGED <<frame, crmlog, current, allTimeVars>>

\* alltime: deals_after = self.find_deals(..., "after"); all_deals = deals + deals_after
PeriodFetchAfter ==
    /\ period.pc = "after"
    /\ \E page \in PeriodPages :
          /\ period' = [period EXCEPT !.all_deals = period.deals \o page,
                                      !.deals = <<>>, !.pc = "aggregate"]
          /\ crmlog' = Append(crmlog, [quarter |-> quarters[period.qi],
                                       stage_category |-> deal_stage[period.si],
                                       n |-> Len(period.deals \o page)])
    /\ UNCHANGED <<frame, current, allTimeVars>>

\* CellResult without the `if all_deals:` guard
CellResultUnguarded(all_deals, rate) == extract_data("period", all_deals, rate)

\* alltime: the `if all_deals:` statement: what is appended to margins and totals,
\* or the exception extract_data raises
CellResult(all_deals, rate) ==
    IF all_deals # <<>>
    THEN extract_data("period", all_deals, rate)
    ELSE [raised |-> FALSE, exc |-> "", ret |-> <<NA, NA>>]

\* alltime: one pass of the inner loop after the searches, and the loop control;
\* main's locals row, col, values_entered are set when alltime returns
PeriodAggregate ==
    /\ period.pc = "aggregate"
    /\ LET r == CellResult(period.all_deals, period.rate)
           lastStage == period.si = Len(deal_stage)
           lastQuarter == period.qi = Len(quarters)
       IN  IF r.raised
           THEN period' = [period EXCEPT !.pc = "raised", !.exc = r.exc]
           ELSE period' = [period EXCEPT
                    !.margins = Append(@, r.ret[1]),
                    !.totals = Append(@, r.ret[2]),
                    !.all_deals = <<>>,
                    !.si = IF lastStage THEN 1 ELSE @ + 1,
                    !.qi = IF lastStage /\ ~lastQuarter THEN @ + 1 ELSE @,
                    !.pc = IF lastStage /\ lastQuarter THEN "write" ELSE "limit",
                    !.row = IF lastStage /\ lastQuarter THEN 2 ELSE @,
                    !.col = IF lastStage /\ lastQuarter THEN 1 ELSE @]
    /\ UNCHANGED <<frame, crmlog, current, allTimeVars>>

\* the row is not reset when the column changes
RowAfterNoReset(row, entered) == row + 1

\* main: `if values_entered % 3 == 0: ... row = 1` and `row += 1`
RowAfter(row, entered) == (IF entered % 3 = 0 THEN 1 ELSE row) + 1

\* main: `if values_entered % 3 == 0: col += 1`
ColAfter(col, entered) == IF entered % 3 = 0 THEN col + 1 ELSE col

\* main: one pass of `for margin, total in zip(margins, totals):`
PeriodWrite ==
    /\ period.pc = "write"
    /\ period.values_entered < Len(period.margins)
    /\ LET k == period.values_entered + 1
           cell == <<Chr(65 + period.col), period.row>>
           entered == period.values_entered + 1
       IN  /\ current' = Append(current,
                            [cell |-> cell,
                             value |-> Report(period.margins[k], period.totals[k])])
           /\ period' = [period EXCEPT
                    !.values_entered = entered,
                    !.col = ColAfter(@, entered),
                    !.row = RowAfter(@, entered)]
    /\ UNCHANGED <<frame, crmlog, allTimeVars>>

\* main: the loop is exhausted and main returns
PeriodFinish ==
    /\ period.pc = "write"
    /\ period.values_entered = Len(period.margins)
    /\ period' = [period EXCEPT !.pc = "done"]
    /\ UNCHANGED <<frame, crmlog, current, allTimeVars>>

PeriodNext ==
    \/ PeriodGetRate
    \/ PeriodFetchLimit
    \/ PeriodFetchAfter
    \/ PeriodAggregate
    \/ PeriodWrite
    \/ PeriodFinish

SpecPeriod == PeriodInit /\ [][PeriodNext]_vars

-----------------------------------------------------------------------------
\* Claims about the fold (SpecFold)

FoldDone == frame.pc \in {"returned", "raised"}
FoldDeal == frame.deals[frame.i + 1]       \* the deal the next iteration consumes
Stepping == frame.pc = "loop" /\ frame.i < Len(frame.deals)

Missing(x) == x = NoneV \/ x = StrV(<<>>)
Numeric(x) == x.t = "str" /\ IsDecimal(x.s)
Num(x) == RInt(DecimalValue(x.s))

\* the iteration neither meets an unparseable amount nor a running amount of 0
AmountFine ==
    /\ Numeric(FoldDeal.amount)
    /\ RAdd(frame.loc.num_amounts, Num(FoldDeal.amount)) # Zero

\* C1: aggregating an empty deal sequence returns the NA sentinel for margin and
\* count, and does not raise.
C1_EmptyReturnsNA ==
    (FoldDone /\ frame.deals = <<>>) =>
        /\ frame.pc = "returned"
        /\ frame.ret[1] = NA
        /\ frame.ret[2] = NA

\* C2: the fold never divides by zero; a prefix whose running total amount is 0 is
\* counted and the fold goes on.
C2_NoDivisionByZero ==
    /\ frame.exc # "ZeroDivisionError"
    /\ (frame.pc = "loop" /\ frame.i > 0) => Len(frame.loc.idcal) = frame.i

\* C3: an NZD deal with net_revenue R adds exactly R / rate to the net revenue total
\* when the rate is present and R when it is absent, and the fold goes on.
C3_ForeignContribution ==
    [][(Stepping /\ AmountFine /\ FoldDeal.deal_currency_code = "NZD"
            /\ Numeric(FoldDeal.net_revenue))
        => /\ frame'.pc = "loop"
           /\ frame'.loc.num_net_revenue =
                RAdd(frame.loc.num_net_revenue,
                     IF frame.rate # NoneV
                     THEN RDiv(Num(FoldDeal.net_revenue), frame.rate.v)
                     ELSE Num(FoldDeal.net_revenue))]_vars

\* C4: a deal whose net_revenue is missing adds its amount to the net revenue
\* total, whatever its currency and whether or not the rate is present, and the
\* fold goes on; alone in a batch, with a non-zero amount, it gives margin 100.
C4_MissingNetRevenueFallback ==
    [][(Stepping /\ AmountFine /\ Missing(FoldDeal.net_revenue))
        => /\ frame'.pc = "loop"
           /\ frame'.loc.num_net_revenue =
                RAdd(frame.loc.num_net_revenue, Num(FoldDeal.amount))
           /\ Len(frame.deals) = 1 => frame'.loc.margin = FloatV(RInt(100))]_vars

RECURSIVE SumAmount(_)
SumAmount(ds) ==
    IF ds = <<>> THEN Zero ELSE RAdd(Num(Head(ds).amount), SumAmount(Tail(ds)))

RECURSIVE SumNetOrAmount(_)
SumNetOrAmount(ds) ==
    IF ds = <<>> THEN Zero
    ELSE RAdd(IF Missing(Head(ds).net_revenue) THEN Num(Head(ds).amount)
              ELSE Num(Head(ds).net_revenue),
              SumNetOrAmount(Tail(ds)))

\* a non-empty batch of well-formed base-currency deals whose amounts do not sum to 0
BaseBatch(ds) ==
    /\ ds # <<>>
    /\ \A k \in 1..Len(ds) :
          /\ ds[k].deal_currency_code = "AUD"
          /\ Numeric(ds[k].amount)
          /\ Missing(ds[k].net_revenue) \/ Numeric(ds[k].net_revenue)
    /\ SumAmount(ds) # Zero

\* C5: for a non-empty batch of base-currency deals the fold returns margin
\* 100 * sum(net_revenue if present else amount) / sum(amount) and count = number
\* of deals.
C5_BaseCurrencyMargin ==
    (FoldDone /\ BaseBatch(frame.deals)) =>
        /\ frame.pc = "returned"
        /\ frame.ret[1] =
             FloatV(RDiv(RMul(RInt(100), SumNetOrAmount(frame.deals)),
                         SumAmount(frame.deals)))
        /\ frame.ret[2] = IntV(Len(frame.deals))

-----------------------------------------------------------------------------
\* Claims about the period report (SpecPeriod)

\* the pair the k-th pass of alltime's loops must handle, period-major
PairOf(k) ==
    [quarter |-> quarters[((k - 1) \div Len(deal_stage)) + 1],
     stage_category |-> deal_stage[((k - 1) % Len(deal_stage)) + 1]]

NumPairs == Len(quarters) * Len(deal_stage)

AlltimeReturned == period.pc \in {"write", "done"}

\* C8: alltime returns exactly one result per (period, stage category) pair, in
\* period-major, category-minor order; a result is (NA, NA) exactly when the
\* pair's concatenated searches are empty; an empty pair does not stop the run.
C8_OneResultPerPair ==
    period.pc # "off" =>
        LET n == Len(period.margins)
        IN  /\ Len(period.totals) = n
            /\ n <= NumPairs
            /\ Len(crmlog) \in {n, n + 1}
            /\ \A k \in 1..Len(crmlog) :
                  /\ crmlog[k].quarter = PairOf(k).quarter
                  /\ crmlog[k].stage_category = PairOf(k).stage_category
            /\ \A k \in 1..n :
                  /\ period.margins[k] = NA <=> crmlog[k].n = 0
                  /\ period.totals[k] = NA <=> crmlog[k].n = 0
            /\ AlltimeReturned => n = NumPairs
            /\ period.pc = "raised" => crmlog[Len(crmlog)].n > 0
            /\ (period.pc = "aggregate" /\ period.all_deals = <<>>) =>
                  ~CellResult(period.all_deals, period.rate).raised

\* an empty pair was followed by a pair with deals, and alltime returned
C8_Witness ==
    /\ AlltimeReturned
    /\ \E j, k \in 1..Len(period.margins) :
          /\ j < k
          /\ period.margins[j] = NA /\ period.totals[j] = NA
          /\ period.margins[k] # NA /\ period.totals[k] = IntV(2)

Malformed(x) == x.t = "str" /\ x.s # <<>> /\ ~IsDecimal(x.s)

HasMalformed(ds) ==
    \E k \in 1..Len(ds) : Malformed(ds[k].amount) \/ Malformed(ds[k].net_revenue)

\* C9: a malformed amount or net_revenue in one pair's deals does not crash the
\* run: that pair's aggregation alone is given up and the run goes on.
C9_MalformedDoesNotCrash ==
    (period.pc = "raised") => ~HasMalformed(period.all_deals)

-----------------------------------------------------------------------------
\* GithubVersionFutureMargin.py: main, increment_file_number, get_next_open_row and
\* write_data_to_sheet (SpecAllTime: runs one after the other; SpecCrash: a run may
\* also be killed at any point)

MaxRuns == 2        \* runs of the all-time report
RowCount == 3       \* worksheet.row_count of the 'AllTime' sheet
MaxFullPages == 1   \* full pages the CRM holds
PartialPage == 37   \* size of a page that is not full

PageLimit == 100    \* "limit": 100, and the 100 of `length % 100`

Runs == 1..MaxRuns
Rows == 1..RowCount
NumCols == 6        \* len(data_to_write)
Cols == 0..(NumCols - 1)

\* str(n) and int(s) for the counter file
RECURSIVE str(_)
str(n) == IF n < 10 THEN <<DigitChar(n)>> ELSE str(n \div 10) \o <<DigitChar(n % 10)>>

int(s) ==
    IF IsDecimal(s) THEN [ok |-> TRUE, v |-> DecimalValue(s)]
    ELSE [ok |-> FALSE, exc |-> "ValueError"]

\* deals the CRM answers the all-time report with: a page is n copies of a deal
AllTimeDeals ==
    { [amount |-> StrV(S100), net_revenue |-> StrV(S50), deal_currency_code |-> "AUD"],
      [amount |-> StrV(S0), net_revenue |-> NoneV, deal_currency_code |-> "NZD"] }

Block(d, n) == [deal |-> d, n |-> n]

\* the pages find_deals may return when the answer holds `full` full pages
AllTimePages(full) ==
    {<<>>}
      \cup {<<Block(d, PartialPage)>> : d \in AllTimeDeals}
      \cup (IF full < MaxFullPages
            THEN {<<Block(d, PageLimit)>> : d \in AllTimeDeals} ELSE {})

RECURSIVE LenBlocks(_)
LenBlocks(bs) == IF bs = <<>> THEN 0 ELSE Head(bs).n + LenBlocks(Tail(bs))

FullPages(bs) == Cardinality({k \in 1..Len(bs) : bs[k].n = PageLimit})

\* the list of deals the blocks stand for
RECURSIVE Expand(_)
Expand(bs) ==
    IF bs = <<>> THEN <<>>
    ELSE [k \in 1..Head(bs).n |-> Head(bs).deal] \o Expand(Tail(bs))

Empty == NoneV                      \* worksheet.cell(...).value of an empty cell
Old == [t |-> "old"]                \* content the sheet held before the runs
Data(r, v) == [t |-> "data", run |-> r, v |-> v]
Today == [t |-> "date"]

IdleRun ==
    [pc |-> "idle", rate |-> NoneV, answer |-> <<>>, length |-> 0, data |-> <<>>,
     previousnumber |-> 0, number |-> 0, buffer |-> <<>>, currentrow |-> 0,
     row |-> 0, next_row |-> NoneV, col |-> 0, exc |-> "", at |-> ""]

ActivePc ==
    {"rate", "first", "paginate", "extract", "inc_read", "inc_open", "inc_write",
     "inc_close", "scan", "write"}
IncPc == {"inc_read", "inc_open", "inc_write", "inc_close"}

Active(r) == run[r].pc \in ActivePc

AllTimeInit ==
    /\ frame = Off
    /\ period = Off
    /\ crmlog = <<>>
    /\ current = <<>>
    /\ \E c \in 1..(RowCount + 1) : file = str(c)
    /\ file0 = file
    /\ \E used \in SUBSET Rows :
          sheet = [w \in Rows |-> [c \in Cols |-> IF w \in used THEN Old ELSE Empty]]
    /\ run = [r \in Runs |-> IdleRun]
    /\ crm = <<>>

\* a run is started when no other run is under way
StartRun(r) ==
    /\ run[r].pc = "idle"
    /\ \A q \in Runs : ~Active(q)
    /\ run' = [run EXCEPT ![r].pc = "rate"]
    /\ UNCHANGED <<foldVars, periodVars, crm, file, file0, sheet>>

\* main: rate = hubspot_api.get_nz_to_aud_rate()
GetRate(r) ==
    /\ run[r].pc = "rate"
    /\ \E x \in Rates : run' = [run EXCEPT ![r].rate = x, ![r].pc = "first"]
    /\ UNCHANGED <<foldVars, periodVars, crm, file, file0, sheet>>

\* main: answer = hubspot_api.find_deals("limit", 100); length = len(answer)
FirstFetch(r) ==
    /\ run[r].pc = "first"
    /\ \E page \in AllTimePages(0) :
          run' = [run EXCEPT ![r].answer = page, ![r].length = LenBlocks(page),
                             ![r].pc = "paginate"]
    /\ UNCHANGED <<foldVars, periodVars, crm, file, file0, sheet>>

\* main: `while length % 100 == 0:` is true: one more find_deals("after", length)
AfterFetch(r) ==
    /\ run[r].pc = "paginate"
    /\ run[r].length % PageLimit = 0
    /\ \E page \in AllTimePages(FullPages(run[r].answer)) :
          LET answer == run[r].answer \o page
          IN  run' = [run EXCEPT ![r].answer = answer, ![r].length = LenBlocks(answer)]
    /\ UNCHANGED <<foldVars, periodVars, crm, file, file0, sheet>>

\* main: the while loop ends
LeaveLoop(r) ==
    /\ run[r].pc = "paginate"
    /\ run[r].length % PageLimit # 0
    /\ run' = [run EXCEPT ![r].pc = "extract"]
    /\ UNCHANGED <<foldVars, periodVars, crm, file, file0, sheet>>

\* main: the values of data_to_write, from what extract_data returned
DataToWrite(ret) ==
    <<Today, FloatV(Round2(ret[1].v)), ret[2], FloatV(Round2(ret[3].v)),
      FloatV(Round2(ret[4].v)), FloatV(Round2(ret[5].v))>>

\* the answers main can hold when the while loop ends: full pages, then at most one
\* page that is not full
RECURSIVE FullAnswers(_)
FullAnswers(k) ==
    IF k = 0 THEN {<<>>}
    ELSE LET shorter == FullAnswers(k - 1)
         IN  shorter \cup {a \o <<Block(d, PageLimit)>> : a \in shorter, d \in AllTimeDeals}

Answers ==
    LET full == FullAnswers(MaxFullPages)
    IN  full \cup {a \o <<Block(d, PartialPage)>> : a \in full, d \in AllTimeDeals}

\* extract_data(answer, rate), tabulated once for each answer and rate
Extracted ==
    [p \in Answers \X Rates |-> extract_data("alltime", Expand(p[1]), p[2])] @@ <<>>

\* what is left of a run that has ended
Ended(pc, at, exc, currentrow, next_row) ==
    [IdleRun EXCEPT !.pc = pc, !.at = at, !.exc = exc, !.currentrow = currentrow,
                    !.next_row = next_row]

\* main: extract_data(answer, rate) and the rounding of what it returns
Extract(r) ==
    /\ run[r].pc = "extract"
    /\ LET res == Extracted[<<run[r].answer, run[r].rate>>]
       IN  IF res.raised
           THEN run' = [run EXCEPT ![r] = Ended("raised", "extract", res.exc, 0, NoneV)]
           ELSE \* answer, length and rate are not read again
                run' = [run EXCEPT ![r].data = DataToWrite(res.ret),
                                   ![r].answer = <<>>, ![r].length = 0,
                                   ![r].rate = NoneV,
                                   ![r].pc = "inc_read"]
    /\ UNCHANGED <<foldVars, periodVars, crm, file, file0, sheet>>

\* number is written back as it was read
NotIncremented(number) == number

\* increment_file_number: number += 1
Incremented(number) == number + 1

\* increment_file_number: open(filename, "r"), file.read(), int(number_str),
\* previousnumber = number, number += 1
IncRead(r) ==
    /\ run[r].pc = "inc_read"
    /\ LET n == int(file)
       IN  IF ~n.ok
           THEN run' = [run EXCEPT ![r] = Ended("raised", "inc_read", n.exc, 0, NoneV)]
           ELSE run' = [run EXCEPT ![r].previousnumber = n.v,
                                   ![r].number = Incremented(n.v),
                                   ![r].pc = "inc_open"]
    /\ UNCHANGED <<foldVars, periodVars, crm, file, file0, sheet>>

\* increment_file_number: open(filename, "w") empties the file
IncOpen(r) ==
    /\ run[r].pc = "inc_open"
    /\ file' = <<>>
    /\ run' = [run EXCEPT ![r].pc = "inc_write"]
    /\ UNCHANGED <<foldVars, periodVars, crm, file0, sheet>>

\* increment_file_number: file.write(str(number)) fills the file object's buffer
IncWrite(r) ==
    /\ run[r].pc = "inc_write"
    /\ run' = [run EXCEPT ![r].buffer = str(run[r].number), ![r].pc = "inc_close"]
    /\ UNCHANGED <<foldVars, periodVars, crm, file, file0, sheet>>

\* the scan starts one row below the counter
ScanStartBelow(currentrow) == currentrow + 1

\* get_next_open_row: the first row of range(currentrow, worksheet.row_count + 1)
ScanStart(currentrow) == currentrow

\* increment_file_number: `return previousnumber` leaves the with block, which
\* closes the file and so writes the buffer out;
\* get_next_open_row: currentrow = self.increment_file_number()
IncClose(r) ==
    /\ run[r].pc = "inc_close"
    /\ file' = run[r].buffer
    /\ run' = [run EXCEPT ![r].currentrow = run[r].previousnumber,
                          ![r].row = ScanStart(run[r].previousnumber),
                          ![r].buffer = <<>>,
                          ![r].pc = "scan"]
    /\ UNCHANGED <<foldVars, periodVars, crm, file0, sheet>>

\* get_next_open_row: one pass of the for loop (one worksheet.cell call), or its
\* end with `return None`; main: `if next_row is None: ... return`
Scan(r) ==
    /\ run[r].pc = "scan"
    /\ IF run[r].row >= RowCount + 1
       THEN run' = [run EXCEPT ![r] = Ended("full", "", "", run[r].currentrow, NoneV)]
       ELSE IF sheet[run[r].row][0] = Empty
            THEN run' = [run EXCEPT ![r].next_row = IntV(run[r].row),
                                    ![r].col = 0, ![r].pc = "write"]
            ELSE run' = [run EXCEPT ![r].row = @ + 1]
    /\ UNCHANGED <<foldVars, periodVars, crm, file, file0, sheet>>

\* write_data_to_sheet: one pass of `for value in data:` (one update_acell call)
WriteCell(r) ==
    /\ run[r].pc = "write"
    /\ run[r].col < Len(run[r].data)
    /\ sheet' = [sheet EXCEPT ![run[r].next_row.v][run[r].col] =
                                  Data(r, run[r].data[run[r].col + 1])]
    /\ run' = [run EXCEPT ![r].col = @ + 1]
    /\ UNCHANGED <<foldVars, periodVars, crm, file, file0>>

\* write_data_to_sheet returns and main ends
Finish(r) ==
    /\ run[r].pc = "write"
    /\ run[r].col = Len(run[r].data)
    /\ run' = [run EXCEPT ![r] = Ended("done", "", "", run[r].currentrow,
                                        run[r].next_row)]
    /\ UNCHANGED <<foldVars, periodVars, crm, file, file0, sheet>>

\* the process is killed: what the file object buffered is lost, unless the
\* interpreter still unwinds the with block, which writes it out
Kill(r) ==
    /\ Active(r)
    /\ run' = [run EXCEPT ![r] = Ended("killed", run[r].pc, "", 0, NoneV)]
    /\ \/ UNCHANGED file
       \/ run[r].pc = "inc_close" /\ file' = run[r].buffer
    /\ UNCHANGED <<foldVars, periodVars, crm, file0, sheet>>

AllTimeNext ==
    \E r \in Runs :
        \/ StartRun(r)
        \/ GetRate(r)
        \/ FirstFetch(r)
        \/ AfterFetch(r)
        \/ LeaveLoop(r)
        \/ Extract(r)
        \/ IncRead(r)
        \/ IncOpen(r)
        \/ IncWrite(r)
        \/ IncClose(r)
        \/ Scan(r)
        \/ WriteCell(r)
        \/ Finish(r)

SpecAllTime == AllTimeInit /\ [][AllTimeNext]_vars

CrashNext == AllTimeNext \/ \E r \in Runs : Kill(r)

SpecCrash == AllTimeInit /\ [][CrashNext]_vars

-----------------------------------------------------------------------------
\* Claims about the row counter and the scan (SpecAllTime, SpecCrash)

MidIncrement(r) == run[r].pc \in {"inc_open", "inc_write", "inc_close"}
PastIncrement(r) == run[r].pc \in {"scan", "write", "done", "full"}

\* the calls of increment_file_number that have returned
Calls == Cardinality({r \in Runs : PastIncrement(r)})

\* C6: over runs that do not overlap, a call of get_next_open_row that reads c has
\* c + 1 in the file before its scan starts, whatever the scan finds, and returns a
\* row >= c or None; after n calls the file holds the initial value + n.
C6_CounterAdvancesByOne ==
    run # <<>> =>
        /\ (\A r \in Runs : ~MidIncrement(r)) =>
              /\ int(file).ok
              /\ int(file).v = int(file0).v + Calls
        /\ \A r \in Runs :
              /\ MidIncrement(r) => run[r].previousnumber = int(file0).v + Calls
              /\ run[r].pc = "scan" =>
                    /\ file = str(run[r].currentrow + 1)
                    /\ run[r].row >= run[r].currentrow
              /\ run[r].pc \in {"write", "done"} =>
                    /\ run[r].next_row.t = "int"
                    /\ run[r].next_row.v >= run[r].currentrow
              /\ run[r].pc = "full" => run[r].next_row = NoneV

\* two calls have returned, one after the other, and one of them found the row
\* the counter named already filled
C6_Witness ==
    /\ run # <<>>
    /\ Calls = 2
    /\ int(file).v = int(file0).v + 2
    /\ \E r \in Runs : run[r].pc = "done" /\ run[r].next_row.v > run[r].currentrow

\* the first row from c on whose first cell is empty, or None
FirstFree(c) ==
    LET free == {w \in c..RowCount : sheet[w][0] = Empty}
    IN  IF free = {} THEN NoneV
        ELSE IntV(CHOOSE w \in free : \A v \in free : w <= v)

WrittenBy(r) == {w \in Rows : \E c \in Cols : sheet'[w][c] # sheet[w][c]}

\* C7: get_next_open_row returns the smallest row in c..row_count whose first
\* cell is empty, and None exactly when there is none; the run writes only into
\* that row, whose first cell was empty, and writes nothing after None.
C7_SmallestEmptyRow ==
    [][\A r \in Runs :
          /\ (run[r].pc = "scan" /\ run'[r].pc \in {"write", "full"}) =>
                /\ run'[r].next_row = FirstFree(run[r].currentrow)
                /\ run'[r].pc = "full" <=> FirstFree(run[r].currentrow) = NoneV
          /\ (run'[r] # run[r] /\ sheet' # sheet) =>
                /\ run[r].next_row # NoneV
                /\ WrittenBy(r) = {run[r].next_row.v}
                /\ run[r].col = 0 => sheet[run[r].next_row.v][0] = Empty
          /\ run[r].pc = "full" => sheet' = sheet]_vars

\* a run skipped filled rows and wrote its report into the first empty one, and
\* another run found the sheet full
C7_Witness ==
    /\ run # <<>>
    /\ \E r, q \in Runs :
          /\ run[r].pc = "done"
          /\ run[r].next_row.v > run[r].currentrow
          /\ sheet[run[r].next_row.v][0] = Data(r, Today)
          /\ run[q].pc = "full"

\* C10: a run killed inside increment_file_number leaves a readable integer,
\* c or c + 1, in the file, c being the content before the call.
C10_CrashLeavesCounterReadable ==
    [][\A r \in Runs :
          (run[r].pc \in IncPc /\ run'[r].pc = "killed"
              /\ (run[r].pc = "inc_read" => int(file).ok)) =>
             LET c == IF run[r].pc = "inc_read" THEN int(file).v
                      ELSE run[r].previousnumber
             IN  /\ int(file').ok
                 /\ int(file').v \in {c, c + 1}]_vars

-----------------------------------------------------------------------------
\* Claims about the layout of the period report (SpecPeriod)

\* C11: the k-th result (k = 0, 1, 2, ...) is written to column index
\* 1 + (k div 3) and row 2 + (k mod 3), so no two results share a cell.
C11_ThreeRowsThenNewColumn ==
    period.pc # "off" =>
        /\ Len(current) = period.values_entered
        /\ \A n \in 1..Len(current) :
              LET k == n - 1
              IN  /\ current[n].cell = <<Chr(65 + 1 + (k \div 3)), 2 + (k % 3)>>
                  /\ current[n].value = Report(period.margins[n], period.totals[n])
        /\ \A m, n \in 1..Len(current) :
              m # n => current[m].cell # current[n].cell

\* all six results are written: B2, B3, B4, then C2, C3, C4
C11_Witness ==
    /\ period.pc = "done"
    /\ Len(current) = NumPairs
    /\ current[3].cell = <<"B", 4>>
    /\ current[4].cell = <<"C", 2>>
    /\ current[NumPairs].cell = <<"C", 4>>

-----------------------------------------------------------------------------
\* Runs of the all-time report that nothing serializes (SpecConcurrent)

\* the two runs that overlap
TwoRuns == {1, 2}

\* main up to extract_data reads and writes only the run's own variables
PrefixPc == {"rate", "first", "paginate", "extract"}

\* a run is started whatever the allocator of the other run is doing; a run that
\* is still before get_next_open_row shares nothing, so no order of its steps and
\* another run's start is told apart, and one order is kept
StartAnyTime(r) ==
    /\ run[r].pc = "idle"
    /\ \A q \in Runs : run[q].pc \notin PrefixPc
    /\ run' = [run EXCEPT ![r].pc = "rate"]
    /\ UNCHANGED <<foldVars, periodVars, crm, file, file0, sheet>>

ConcurrentNext ==
    \E r \in TwoRuns :
        \/ StartAnyTime(r)
        \/ GetRate(r)
        \/ FirstFetch(r)
        \/ AfterFetch(r)
        \/ LeaveLoop(r)
        \/ Extract(r)
        \/ IncRead(r)
        \/ IncOpen(r)
        \/ IncWrite(r)
        \/ IncClose(r)
        \/ Scan(r)
        \/ WriteCell(r)
        \/ Finish(r)

SpecConcurrent == AllTimeInit /\ [][ConcurrentNext]_vars

\* the rows of the sheet that hold a report of one of the runs
ReportRows == {w \in Rows : \E c \in Cols : sheet[w][c] # Empty /\ sheet[w][c].t = "data"}

\* both runs have left increment_file_number with the same value
SameCounter(r, q) ==
    /\ r # q
    /\ PastIncrement(r)
    /\ PastIncrement(q)
    /\ run[r].currentrow = run[q].currentrow

\* both runs have written their report into the same row
SameRow(r, q) ==
    /\ SameCounter(r, q)
    /\ run[r].pc = "done"
    /\ run[q].pc = "done"
    /\ run[r].next_row = run[q].next_row

\* C12: when two runs that overlap have both read the counter value c, the file
\* holds c + 1 and not c + 2 once both calls have returned; when both are then
\* given the same row, the sheet holds one report row for the two runs, each cell
\* of it written by one of them, so a report is lost.
C12_OverlapLosesUpdate ==
    run # <<>> =>
        \A r, q \in TwoRuns :
            /\ SameCounter(r, q) =>
                  /\ int(file).ok
                  /\ int(file).v = run[r].currentrow + 1
                  /\ int(file).v # int(file0).v + Calls
            /\ SameRow(r, q) =>
                  /\ ReportRows = {run[r].next_row.v}
                  /\ \A c \in Cols :
                        sheet[run[r].next_row.v][c] \in
                            {Data(r, sheet[run[r].next_row.v][c].v),
                             Data(q, sheet[run[r].next_row.v][c].v)}

\* both runs read the same c, the file ends at c + 1, both are given the same row
\* and the report of run 1 is overwritten in every cell by that of run 2
C12_Witness ==
    /\ run # <<>>
    /\ SameRow(1, 2)
    /\ int(file).ok
    /\ int(file).v = int(file0).v + 1
    /\ run[1].next_row # NoneV
    /\ \A c \in Cols : sheet[run[1].next_row.v][c].run = 2

-----------------------------------------------------------------------------
\* Runs of the all-time report over a CRM that holds a finite list of deals
\* (SpecPaging)

\* the lists of deals the CRM may hold: full pages, then at most one that is not
Crms == Answers

\* find_deals: the search returns the page of at most 100 deals that starts
\* after the first `offset` deals, and nothing past the last deal
Page(deals, offset) ==
    LET k == offset \div PageLimit
    IN  IF k < Len(deals) THEN <<deals[k + 1]>> ELSE <<>>

\* find_deals: `return response.json().get('results', [])`, or `return []` when
\* the status code is not 200
find_deals(deals, offset) == {Page(deals, offset), <<>>}

PagingInit ==
    /\ frame = Off
    /\ period = Off
    /\ crmlog = <<>>
    /\ current = <<>>
    /\ \E c \in 1..(RowCount + 1) : file = str(c)
    /\ file0 = file
    /\ \E used \in SUBSET Rows :
          sheet = [w \in Rows |-> [c \in Cols |-> IF w \in used THEN Old ELSE Empty]]
    /\ run = [r \in Runs |-> IdleRun]
    /\ crm \in Crms

\* main: answer = hubspot_api.find_deals("limit", 100); length = len(answer)
CrmFirstFetch(r) ==
    /\ run[r].pc = "first"
    /\ \E page \in find_deals(crm, 0) :
          run' = [run EXCEPT ![r].answer = page, ![r].length = LenBlocks(page),
                             ![r].pc = "paginate"]
    /\ UNCHANGED <<foldVars, periodVars, crm, file, file0, sheet>>

\* main: `while length % 100 == 0:` is true:
\* answer += hubspot_api.find_deals("after", length); length = len(answer)
CrmAfterFetch(r) ==
    /\ run[r].pc = "paginate"
    /\ run[r].length % PageLimit = 0
    /\ \E page \in find_deals(crm, run[r].length) :
          LET answer == run[r].answer \o page
          IN  run' = [run EXCEPT ![r].answer = answer, ![r].length = LenBlocks(answer)]
    /\ UNCHANGED <<foldVars, periodVars, crm, file, file0, sheet>>

PagingNext ==
    \E r \in Runs :
        \/ StartRun(r)
        \/ GetRate(r)
        \/ CrmFirstFetch(r)
        \/ CrmAfterFetch(r)
        \/ LeaveLoop(r)
        \/ Extract(r)
        \/ IncRead(r)
        \/ IncOpen(r)
        \/ IncWrite(r)
        \/ IncClose(r)
        \/ Scan(r)
        \/ WriteCell(r)
        \/ Finish(r)

SpecPaging == PagingInit /\ [][PagingNext]_vars

\* the run is at the head of the while loop and has fetched every deal of the CRM
FetchedAll(r) ==
    /\ run[r].pc = "paginate"
    /\ run[r].length = LenBlocks(crm)

\* C13: the pagination loop ends for every finite list of deals: once the run has
\* fetched all the deals the CRM holds, none (an empty CRM) or an exact multiple of
\* 100 included, the condition of the while loop is false and main goes on to
\* extract_data.
C13_LoopEndsWhenAllFetched ==
    \A r \in Runs : FetchedAll(r) => run[r].length % PageLimit # 0

====
